---- MODULE Spec2Model ----
(***************************************************************************)
(* Model of tensorflow/python/lib/core/ndarray_tensor.cc: the conversions  *)
(* between numpy ndarrays and TF_Tensor handles, the string-tensor codec   *)
(* and the ownership of the tensor handle, of the ndarray reference and of *)
(* the encoded string buffer.                                              *)
(***************************************************************************)
EXTENDS Integers, Sequences, FiniteSets, TLC

(***************************************************************************)
(* Bounds of the model.                                                    *)
(***************************************************************************)
\* Largest number of elements of a string array that is encoded.
MaxElems == 3
\* Length of the long byte string (its length prefix takes two bytes).
LongLen == 130
\* Number of mapped junk bytes that follow a tensor buffer in memory.
HeapLen == 9
\* Largest number of references the caller holds on a returned ndarray.
MaxRefs == 2

(***************************************************************************)
(* Program constants.                                                      *)
(***************************************************************************)
\* sizeof(tensorflow::uint64): the width of one slot of the offset table.
SizeofUint64 == 8
\* Stands for every uint64/size_t value of 2^24 or more: all of them lie
\* beyond every buffer of the model.
Huge == 16777216

(***************************************************************************)
(* Byte-level helpers: memory is a sequence of bytes, address a is element *)
(* a+1.  Uninit marks a byte of a new char[] that was never written.       *)
(***************************************************************************)
Uninit == 0 - 1

RECURSIVE ProdSeq(_)
ProdSeq(s) == IF s = <<>> THEN 1 ELSE Head(s) * ProdSeq(Tail(s))

\* memcpy(buf + addr, bytes, Len(bytes)); a write that leaves the buffer is
\* dropped here and reported by the caller's bounds flag.
Store(buf, addr, bytes) ==
  [k \in 1..Len(buf) |->
     IF k - 1 >= addr /\ k - 1 < addr + Len(bytes)
     THEN bytes[k - addr] ELSE buf[k]]

\* The little-endian bytes of a uint64 below 2^24.
U64Bytes(v) ==
  <<v % 256, (v \div 256) % 256, (v \div 65536) % 256, 0, 0, 0, 0, 0>>

\* The uint64 stored in eight bytes (Huge for 2^24 and above).
U64Value(b) ==
  IF \E k \in 4..8 : b[k] # 0 THEN Huge
  ELSE b[1] + 256 * b[2] + 65536 * b[3]

(***************************************************************************)
(* core::VarintLength, core::EncodeVarint64 (lib/core/coding.h): base-128  *)
(* little-endian digits, the high bit set on every byte but the last.      *)
(***************************************************************************)
RECURSIVE VarintLength(_)
VarintLength(v) == IF v < 128 THEN 1 ELSE 1 + VarintLength(v \div 128)

RECURSIVE EncodeVarint64(_)
EncodeVarint64(v) ==
  IF v < 128 THEN <<v>>
  ELSE <<(v % 128) + 128>> \o EncodeVarint64(v \div 128)

(***************************************************************************)
(* Python objects held by a string ndarray.                                *)
(***************************************************************************)
PyBytes(b) == [kind |-> "bytes", val |-> b]
PyUnicode(cps) == [kind |-> "unicode", val |-> cps]
PyOther == [kind |-> "other", val |-> <<>>]

\* PyUnicode_AsUTF8AndSize on one code point; a lone surrogate has no UTF-8.
Utf8OfCodePoint(cp) ==
  IF cp < 128 THEN <<cp>>
  ELSE IF cp < 2048 THEN <<192 + (cp \div 64), 128 + (cp % 64)>>
  ELSE <<224 + (cp \div 4096), 128 + ((cp \div 64) % 64), 128 + (cp % 64)>>

IsSurrogate(cp) == cp >= 55296 /\ cp <= 57343

RECURSIVE Utf8(_)
Utf8(cps) == IF cps = <<>> THEN <<>> ELSE Utf8OfCodePoint(Head(cps)) \o Utf8(Tail(cps))

\* PyObjectToString: the byte view of one element, or an Internal error.
PyObjectToString(obj) ==
  IF obj.kind = "bytes" THEN [ok |-> TRUE, bytes |-> obj.val]
  ELSE IF obj.kind = "unicode" THEN
    IF \E k \in 1..Len(obj.val) : IsSurrogate(obj.val[k])
    THEN [ok |-> FALSE, bytes |-> <<>>]
    ELSE [ok |-> TRUE, bytes |-> Utf8(obj.val)]
  ELSE [ok |-> FALSE, bytes |-> <<>>]

\* PyBytesArrayMap: the byte views f is called with, in element order, and
\* whether the iteration stopped on an element without a byte view.
RECURSIVE PyBytesArrayMap(_)
PyBytesArrayMap(items) ==
  IF items = <<>> THEN [ok |-> TRUE, views |-> <<>>]
  ELSE LET v == PyObjectToString(Head(items)) IN
       IF ~v.ok THEN [ok |-> FALSE, views |-> <<>>]
       ELSE LET r == PyBytesArrayMap(Tail(items)) IN
            [ok |-> r.ok, views |-> <<v.bytes>> \o r.views]

(***************************************************************************)
(* EncodePyBytesArray.                                                     *)
(***************************************************************************)
\* A first lambda that forgets the length prefix.
EncodeSizeOfNoPrefix(len) == SizeofUint64 + len

\* The first lambda: what one element adds to *size.
EncodeSizeOf(len) == SizeofUint64 + VarintLength(len) + len

\* First pass: *size after every element was visited.
RECURSIVE EncodeSize(_)
EncodeSize(views) ==
  IF views = <<>> THEN 0
  ELSE EncodeSizeOf(Len(Head(views))) + EncodeSize(Tail(views))

\* An offset measured from the start of the buffer.
EncodeOffsetFromBase(dst, data_start, base) == dst - base

\* The value the second lambda stores in *offsets.
EncodeOffset(dst, data_start, base) == dst - data_start

\* Second pass: the second lambda applied to the views in order.  st holds
\* the buffer, the slot `offsets` points at, dst, and whether a write left
\* the buffer.
RECURSIVE EncodeFill(_, _, _)
EncodeFill(views, st, data_start) ==
  IF views = <<>> THEN st
  ELSE LET s == Head(views)
           rec == EncodeVarint64(Len(s)) \o s
           b1 == Store(st.buf, SizeofUint64 * st.slot,
                       U64Bytes(EncodeOffset(st.dst, data_start, 0)))
           b2 == Store(b1, st.dst, rec)
       IN EncodeFill(Tail(views),
                     [buf |-> b2, slot |-> st.slot + 1,
                      dst |-> st.dst + Len(rec),
                      overrun |-> st.overrun
                                  \/ SizeofUint64 * (st.slot + 1) > Len(st.buf)
                                  \/ st.dst + Len(rec) > Len(st.buf)],
                     data_start)

\* EncodePyBytesArray(array, nelems, &size, &buffer).  getitem says whether
\* PyArray_GETITEM yields every element ("ok") or yields no item during the
\* first ("fail1") or the second ("fail2") pass.  status is "OK", "Internal"
\* or "CheckFailed" (CHECK_EQ); allocated says whether new char[*size] was
\* reached, and on an error return base_ptr frees what was allocated.
EncodePyBytesArray(items, nelems, getitem) ==
  LET m == PyBytesArrayMap(items) IN
  IF ~m.ok \/ (getitem = "fail1" /\ items # <<>>)
  THEN [status |-> "Internal", size |-> 0, buffer |-> <<>>, dst |-> 0,
        allocated |-> FALSE, overrun |-> FALSE]
  ELSE LET size == EncodeSize(m.views)
           data_start == SizeofUint64 * nelems
           st == EncodeFill(m.views,
                            [buf |-> [k \in 1..size |-> Uninit], slot |-> 0,
                             dst |-> data_start, overrun |-> FALSE],
                            data_start)
       IN IF getitem = "fail2" /\ items # <<>>
          THEN [status |-> "Internal", size |-> size, buffer |-> <<>>,
                dst |-> data_start, allocated |-> TRUE, overrun |-> FALSE]
          ELSE [status |-> IF st.dst = size THEN "OK" ELSE "CheckFailed",
                size |-> size, buffer |-> st.buf, dst |-> st.dst,
                allocated |-> TRUE, overrun |-> st.overrun]

(***************************************************************************)
(* Reading a tensor buffer.  The buffer `data` holds TF_TensorByteSize     *)
(* bytes; `heap` holds the mapped bytes that follow it, and every address  *)
(* after those is unmapped.                                                *)
(***************************************************************************)
Mapped(data, heap, a) == a >= 0 /\ a < Len(data) + Len(heap)

MemAt(data, heap, a) ==
  IF a < Len(data) THEN data[a + 1] ELSE heap[a - Len(data) + 1]

\* offsets[i]: the eight bytes at tensor_data + 8*i.
ReadOffset(data, heap, i) ==
  LET a == SizeofUint64 * i IN
  IF ~Mapped(data, heap, a + SizeofUint64 - 1)
  THEN [crash |-> TRUE, value |-> 0, oob |-> TRUE]
  ELSE [crash |-> FALSE,
        value |-> U64Value([k \in 1..SizeofUint64 |-> MemAt(data, heap, a + k - 1)]),
        oob |-> a + SizeofUint64 > Len(data)]

\* limit - start, converted to the size_t parameter src_len.
SrcLen(limit, start) == IF start <= limit THEN limit - start ELSE Huge

Less(n) == IF n >= Huge THEN Huge ELSE n - 1

\* core::GetVarint64Ptr on [p, p + avail): digit k of the value is read at p.
RECURSIVE GetVarint(_, _, _, _, _, _)
GetVarint(data, heap, p, avail, k, acc) ==
  IF avail = 0 \/ k > 9
  THEN [ok |-> FALSE, crash |-> FALSE, value |-> 0, next |-> p, oob |-> FALSE]
  ELSE IF ~Mapped(data, heap, p)
  THEN [ok |-> FALSE, crash |-> TRUE, value |-> 0, next |-> p, oob |-> TRUE]
  ELSE LET b == MemAt(data, heap, p)
           digit == b % 128
           v == IF acc >= Huge \/ (k >= 3 /\ digit # 0) THEN Huge
                ELSE IF k = 0 THEN digit
                ELSE IF k = 1 THEN acc + 128 * digit
                ELSE IF k = 2 THEN acc + 16384 * digit
                ELSE acc
           here == p >= Len(data)
       IN IF b < 128
          THEN [ok |-> TRUE, crash |-> FALSE, value |-> v, next |-> p + 1,
                oob |-> here]
          ELSE LET r == GetVarint(data, heap, p + 1, Less(avail), k + 1, v)
               IN [r EXCEPT !.oob = r.oob \/ here]

\* TF_StringDecode(src, src_len, &dst, &dst_len, status): the record at src
\* must lie within src_len bytes, prefix and payload.
TF_StringDecode(data, heap, src, src_len) ==
  LET g == GetVarint(data, heap, src, src_len, 0, 0) IN
  IF g.crash
  THEN [status |-> "Crash", ptr |-> 0, len |-> 0, oob |-> TRUE]
  ELSE IF ~g.ok
  THEN [status |-> "InvalidArgument", ptr |-> 0, len |-> 0, oob |-> g.oob]
  ELSE LET left == IF src_len >= Huge THEN Huge ELSE src_len - (g.next - src)
       IN IF g.value > left
          THEN [status |-> "InvalidArgument", ptr |-> 0, len |-> 0, oob |-> g.oob]
          ELSE [status |-> "OK", ptr |-> g.next, len |-> g.value, oob |-> g.oob]

\* PyBytes_FromStringAndSize(ptr, len): a copy of len bytes at ptr.
PyBytes_FromStringAndSize(data, heap, ptr, len) ==
  IF len > 0 /\ ~Mapped(data, heap, ptr + len - 1)
  THEN [crash |-> TRUE, bytes |-> <<>>, oob |-> TRUE]
  ELSE [crash |-> FALSE,
        bytes |-> [k \in 1..len |-> MemAt(data, heap, ptr + k - 1)],
        oob |-> len > 0 /\ ptr + len > Len(data)]

\* The size check of CopyTF_TensorStringsToPyArray: expected_tensor_size is
\* limit - tensor_data, where limit is tensor_data + tensor_size.
ExpectedTensorSize(tensor_data, tensor_size) ==
  (tensor_data + tensor_size) - tensor_data

\* One iteration of the loop of CopyTF_TensorStringsToPyArray, up to the
\* creation of the Python bytes object.  ub says what a build makes of a
\* start beyond limit: "wrap" (start + src_len wraps to limit, nothing is
\* read) or "read" (the record is read where start points).
DecodeElem(data, heap, nelems, i, ub) ==
  LET limit == Len(data)
      off == ReadOffset(data, heap, i)
      start == SizeofUint64 * nelems + off.value
  IN IF off.crash
     THEN [status |-> "Crash", bytes |-> <<>>, oob |-> TRUE]
     ELSE IF start > limit /\ ub = "wrap"
     THEN [status |-> "InvalidArgument", bytes |-> <<>>, oob |-> off.oob]
     ELSE LET d == TF_StringDecode(data, heap, start, SrcLen(limit, start))
          IN IF d.status # "OK"
             THEN [status |-> d.status, bytes |-> <<>>, oob |-> off.oob \/ d.oob]
             ELSE LET b == PyBytes_FromStringAndSize(data, heap, d.ptr, d.len)
                  IN IF b.crash
                     THEN [status |-> "Crash", bytes |-> <<>>, oob |-> TRUE]
                     ELSE [status |-> "OK", bytes |-> b.bytes,
                           oob |-> off.oob \/ d.oob \/ b.oob]

\* FastMemcpy(dst, src, size): every branch of the switch copies size bytes.
FastMemcpy(src, size) == [k \in 1..size |-> src[k]]

(***************************************************************************)
(* Tensors and ndarrays.                                                   *)
(***************************************************************************)
\* A TF_Tensor: TF_TensorType, TF_NumDims/TF_Dim, TF_TensorData (with
\* TF_TensorByteSize = Len(data)) and the deallocator it was created with.
Tensor(dtype, dims, data, dealloc) ==
  [dtype |-> dtype, dims |-> dims, data |-> data, dealloc |-> dealloc]

NoTensor == Tensor("none", <<>>, <<>>, "none")

\* An ndarray handed to the caller, or what *out_ndarray holds instead.
Unwritten == [kind |-> "unwritten", dims |-> <<>>, data |-> <<>>, items |-> <<>>]
PyNone == [kind |-> "None", dims |-> <<>>, data |-> <<>>, items |-> <<>>]
AliasArray(d, data) == [kind |-> "alias", dims |-> d, data |-> data, items |-> <<>>]
CopyArray(d, data, its) == [kind |-> "copy", dims |-> d, data |-> data, items |-> its]

\* The byte strings and Python objects the arrays of the model hold.
LongStr == [k \in 1..LongLen |-> 120]
ByteStrs == {<<>>, <<97, 0, 98>>, LongStr}
PyObjs == {PyBytes(b) : b \in ByteStrs}
            \cup {PyUnicode(<<233>>), PyUnicode(<<55296>>), PyOther}

SeqsUpTo(S, n) == UNION {[1..k -> S] : k \in 0..n}

\* The object given to PyArrayToTF_Tensor.
NdArray(isArray, npy, d, data, its) ==
  [isArray |-> isArray, npy |-> npy, dims |-> d, data |-> data, items |-> its]

NoArray == NdArray(FALSE, "none", <<>>, <<>>, <<>>)

PyInputs ==
  {NoArray,
   NdArray(TRUE, "NPY_UINT8", <<2>>, <<7, 8>>, <<>>),
   NdArray(TRUE, "NPY_UINT8", <<>>, <<7>>, <<>>),
   NdArray(TRUE, "NPY_INT16", <<1, 2>>, <<1, 0, 2, 0>>, <<>>),
   NdArray(TRUE, "NPY_RESOURCE", <<3>>, <<5, 6, 7>>, <<>>),
   NdArray(TRUE, "NPY_VOID", <<1>>, <<0>>, <<>>)}
  \cup {NdArray(TRUE, "NPY_OBJECT", <<Len(its)>>, <<>>, its) :
          its \in SeqsUpTo(PyObjs, MaxElems)}

\* What has gone wrong with a string tensor that reaches the decoder.
Corruptions ==
  {"none", "residual", "truncated", "more_elems", "bad_offset", "end_offset",
   "no_buffer"}

Payload(S) == Len(EncodePyBytesArray([k \in 1..Len(S) |-> PyBytes(S[k])], Len(S), "ok").buffer)
                - SizeofUint64 * Len(S)

StringTensor(S, c) ==
  LET n == Len(S)
      e == EncodePyBytesArray([k \in 1..n |-> PyBytes(S[k])], n, "ok").buffer
  IN CASE c = "none" -> Tensor("TF_STRING", <<n>>, e, "engine")
       [] c = "residual" -> Tensor("TF_STRING", <<n>>, e \o <<0>>, "engine")
       [] c = "truncated" ->
            Tensor("TF_STRING", <<n>>,
                   IF e = <<>> THEN e ELSE SubSeq(e, 1, Len(e) - 1), "engine")
       [] c = "more_elems" -> Tensor("TF_STRING", <<n + 1>>, e, "engine")
       [] c = "bad_offset" ->
            Tensor("TF_STRING", <<n>>,
                   IF n = 0 THEN e ELSE Store(e, 0, U64Bytes(Payload(S) + 1)),
                   "engine")
       [] c = "end_offset" ->
            Tensor("TF_STRING", <<n>>,
                   IF n = 0 THEN e ELSE Store(e, 0, U64Bytes(Payload(S))),
                   "engine")
       [] OTHER -> Tensor("TF_STRING", <<n + 1>>, <<>>, "engine")

\* The tensors the engine hands to the two tensor-to-array entry points.
NumericTensors ==
  {Tensor("TF_UINT8", <<2>>, <<7, 8>>, "engine"),
   Tensor("TF_UINT8", <<>>, <<7>>, "engine"),
   Tensor("TF_UINT8", <<0>>, <<>>, "engine"),
   Tensor("TF_UINT8", <<2>>, <<7>>, "engine"),
   Tensor("TF_INT16", <<1, 2>>, <<1, 0, 2, 0>>, "engine"),
   Tensor("TF_INT16", <<2>>, <<1, 0>>, "engine"),
   Tensor("TF_RESOURCE", <<>>, <<5, 6, 7>>, "engine"),
   Tensor("TF_RESOURCE", <<1>>, <<5>>, "engine"),
   Tensor("TF_VARIANT", <<>>, <<9>>, "engine")}

StringTensors ==
  {StringTensor(S, c) : S \in SeqsUpTo(ByteStrs, MaxElems), c \in Corruptions}

EngineTensors == NumericTensors \cup StringTensors

\* The bytes that follow a tensor buffer: none mapped, or HeapLen junk bytes.
Heaps ==
  {<<>>, [k \in 1..HeapLen |-> 0], [k \in 1..HeapLen |-> IF k = 1 THEN 1 ELSE 0]}

\* What a read through a null TF_Tensor* may find as the tensor's fields.
GarbageTensors ==
  {Tensor("TF_UINT8", <<>>, <<7>>, "none"),
   Tensor("TF_STRING", <<>>, <<>>, "none"),
   Tensor("TF_RESOURCE", <<>>, <<>>, "none")}

(***************************************************************************)
(* Collaborators.                                                          *)
(***************************************************************************)
\* GetPyArrayDimensionsForTensor(tensor, &dims, &nelems); nelems is left as
\* it was on the error return.
GetPyArrayDimensionsForTensor(t, nelems0) ==
  IF t.dtype = "TF_RESOURCE"
  THEN IF Len(t.dims) # 0
       THEN [ok |-> FALSE, dims |-> <<>>, nelems |-> nelems0]
       ELSE [ok |-> TRUE, dims |-> <<Len(t.data)>>, nelems |-> Len(t.data)]
  ELSE [ok |-> TRUE, dims |-> t.dims, nelems |-> ProdSeq(t.dims)]

\* ArrayFromMemory (ndarray_tensor_bridge): wraps the memory in an ndarray
\* whose base object runs the destructor when the array is deallocated.  It
\* refuses string and resource tensors and dtypes numpy has no type for; ok
\* is whether numpy accepts the memory.  On failure the destructor is not run.
ArrayFromMemory(dtype, ok) ==
  IF dtype \in {"TF_STRING", "TF_RESOURCE"} THEN "FailedPrecondition"
  ELSE IF dtype = "TF_VARIANT" THEN "Unimplemented"
  ELSE IF ~ok THEN "Unknown"
  ELSE "OK"

\* DataTypeToPyArray_Descr: the dtype lookup, a black box that fails for the
\* dtypes numpy has no descriptor for.
DataTypeToPyArray_Descr(dtype) ==
  IF dtype = "TF_VARIANT" THEN "Unimplemented" ELSE "OK"

\* The item size of the descriptor found for a dtype.
ItemSize(dtype) == IF dtype = "TF_INT16" THEN 2 ELSE IF dtype = "TF_STRING" THEN 8 ELSE 1

\* PyArray_NBYTES of PyArray_Empty(dims, descr).
PyArray_NBYTES(d, dtype) == ProdSeq(d) * ItemSize(dtype)

\* PyArray_DescrToDataType: the dtype lookup of the other direction.
PyArray_DescrToDataType(npy) ==
  CASE npy = "NPY_UINT8" -> [ok |-> TRUE, dtype |-> "TF_UINT8"]
    [] npy = "NPY_INT16" -> [ok |-> TRUE, dtype |-> "TF_INT16"]
    [] npy = "NPY_OBJECT" -> [ok |-> TRUE, dtype |-> "TF_STRING"]
    [] npy = "NPY_RESOURCE" -> [ok |-> TRUE, dtype |-> "TF_RESOURCE"]
    [] OTHER -> [ok |-> FALSE, dtype |-> "TF_FLOAT"]

(***************************************************************************)
(* Ownership bookkeeping.  own.holder says who holds the TF_Tensor handle: *)
(* "none" (there is no handle), "caller" (the caller's Safe_TF_TensorPtr), *)
(* "param" (the Safe_TF_TensorPtr parameter of the running function),      *)
(* "raw" (a raw pointer in a local, after release()), "callback" (the      *)
(* destructor closure of the ndarray), "leaked" (nobody), "freed".         *)
(***************************************************************************)
NoOwn ==
  [holder |-> "none", deletes |-> 0, fnDeletes |-> 0, cbRuns |-> 0,
   arrRefs |-> 0, arrDecrefs |-> 0, encAllocs |-> 0, encFrees |-> 0]

\* TF_DeleteTensor(handle): the handle goes, and its deallocator runs:
\* DelayedNumpyDecref gives up the ndarray reference, the string lambda
\* delete[]s the encoded buffer.
TF_DeleteTensor(o, t, who) ==
  [o EXCEPT !.holder = "freed",
            !.deletes = @ + 1,
            !.fnDeletes = IF who = "function" THEN @ + 1 ELSE @,
            !.cbRuns = IF who = "callback" THEN @ + 1 ELSE @,
            !.arrDecrefs = IF t.dealloc = "DelayedNumpyDecref" THEN @ + 1 ELSE @,
            !.encFrees = IF t.dealloc = "delete[]" THEN @ + 1 ELSE @]

\* The function returns: its Safe_TF_TensorPtr parameter deletes the handle
\* it holds; a raw pointer in a local is simply forgotten.
ReturnOwn(o, t) ==
  IF o.holder = "param" THEN TF_DeleteTensor(o, t, "function")
  ELSE IF o.holder = "raw" THEN [o EXCEPT !.holder = "leaked"]
  ELSE o

VARIABLES
  pc,         \* where the running function is
  entry,      \* the public function that was called: "TP", "MA" or "PA"
  isNull,     \* the TF_Tensor* given is null
  tensor,     \* the tensor behind the handle
  heap,       \* the mapped bytes after the tensor buffer
  own,        \* who holds the handle, and the counts of releases
  dims,       \* local dims
  nelems,     \* local nelems
  moved,      \* local moved: "unset", "null" or "handle"
  status,     \* the Status returned
  out,        \* *out_ndarray
  outRefs,    \* reference count of the ndarray handed out
  calls,      \* <<caller, callee>> for the calls made on the tensor
  failed,     \* the steps that failed during the call
  nullDeref,  \* a null TF_Tensor* was dereferenced
  oob,        \* a byte outside the tensor buffer was read
  i,          \* loop index of CopyTF_TensorStringsToPyArray
  items,      \* the elements stored so far in the destination array
  ndarray,    \* the object given to PyArrayToTF_Tensor
  chained     \* the tensor converted back was made by PyArrayToTF_Tensor

vars == <<pc, entry, isNull, tensor, heap, own, dims, nelems, moved, status,
          out, outRefs, calls, failed, nullDeref, oob, i, items, ndarray,
          chained>>

Init ==
  /\ pc = "idle"
  /\ entry = "none"
  /\ isNull = FALSE
  /\ tensor = NoTensor
  /\ heap = <<>>
  /\ own = NoOwn
  /\ dims = <<>>
  /\ nelems = 0 - 1
  /\ moved = "unset"
  /\ status = "none"
  /\ out = Unwritten
  /\ outRefs = 0
  /\ calls = {}
  /\ failed = {}
  /\ nullDeref = FALSE
  /\ oob = FALSE
  /\ i = 0
  /\ items = <<>>
  /\ ndarray = NoArray
  /\ chained = FALSE

(***************************************************************************)
(* The callers.                                                            *)
(***************************************************************************)
\* A caller hands a tensor (or a null pointer) to TF_TensorToPyArray or to
\* TF_TensorToMaybeAliasedPyArray; the parameter takes the handle over.
CallTensorToArray ==
  /\ pc = "idle"
  /\ \E e \in {"TP", "MA"}, t \in EngineTensors \cup {NoTensor}, h \in Heaps :
       /\ t.dtype # "TF_STRING" => h = <<>>
       /\ entry' = e
       /\ isNull' = (t = NoTensor)
       /\ tensor' = t
       /\ heap' = h
       /\ own' = [own EXCEPT !.holder = IF t = NoTensor THEN "none" ELSE "param"]
       /\ pc' = IF e = "TP" THEN "tp_entry" ELSE "ma_entry"
  /\ UNCHANGED <<dims, nelems, moved, status, out, outRefs, calls, failed,
                 nullDeref, oob, i, items, ndarray, chained>>

\* A caller hands an object to PyArrayToTF_Tensor.
CallArrayToTensor ==
  /\ pc = "idle"
  /\ \E a \in PyInputs : ndarray' = a
  /\ entry' = "PA"
  /\ pc' = "pa_entry"
  /\ UNCHANGED <<isNull, tensor, heap, own, dims, nelems, moved, status, out,
                 outRefs, calls, failed, nullDeref, oob, i, items, chained>>

(***************************************************************************)
(* TF_TensorToPyArray.                                                     *)
(***************************************************************************)
\* if (tensor == nullptr) { Py_INCREF(Py_None); *out_ndarray = Py_None; ... }
TP_Entry ==
  /\ pc = "tp_entry"
  /\ IF isNull
     THEN /\ out' = PyNone
          /\ outRefs' = 1
          /\ status' = "OK"
          /\ own' = ReturnOwn(own, tensor)
          /\ pc' = "done"
     ELSE /\ pc' = "tp_dims"
          /\ UNCHANGED <<out, outRefs, status, own>>
  /\ UNCHANGED <<entry, isNull, tensor, heap, dims, nelems, moved, calls,
                 failed, nullDeref, oob, i, items, ndarray, chained>>

\* TF_RETURN_IF_ERROR(GetPyArrayDimensionsForTensor(tensor.get(), ...)).
TP_Dims ==
  /\ pc = "tp_dims"
  /\ LET r == GetPyArrayDimensionsForTensor(tensor, nelems) IN
     /\ dims' = r.dims
     /\ nelems' = r.nelems
     /\ IF r.ok
        THEN /\ pc' = "tp_move"
             /\ UNCHANGED <<status, failed, own>>
        ELSE /\ status' = "InvalidArgument"
             /\ failed' = failed \cup {"shape"}
             /\ own' = ReturnOwn(own, tensor)
             /\ pc' = "done"
  /\ UNCHANGED <<entry, isNull, tensor, heap, moved, out, outRefs, calls,
                 nullDeref, oob, i, items, ndarray, chained>>

\* original = tensor.get(); moved = TF_TensorMaybeMove(tensor.release()).
\* The engine grants the move when the buffer is exclusively owned.
TP_Move ==
  /\ pc = "tp_move"
  /\ \E granted \in BOOLEAN :
       /\ moved' = IF granted THEN "handle" ELSE "null"
       /\ failed' = IF granted THEN failed ELSE failed \cup {"move"}
       /\ pc' = IF granted THEN "tp_alias" ELSE "tp_reset"
  /\ own' = [own EXCEPT !.holder = "raw"]
  /\ calls' = calls \cup {<<"TP", "TF_TensorMaybeMove">>}
  /\ UNCHANGED <<entry, isNull, tensor, heap, dims, nelems, status, out,
                 outRefs, nullDeref, oob, i, items, ndarray, chained>>

\* if (ArrayFromMemory(..., [moved] { TF_DeleteTensor(moved); }, out_ndarray)
\*         .ok()) return Status::OK();
TP_Alias ==
  /\ pc = "tp_alias"
  /\ calls' = calls \cup {<<"TP", "ArrayFromMemory">>}
  /\ \E ok \in BOOLEAN :
       IF ArrayFromMemory(tensor.dtype, ok) = "OK"
       THEN /\ out' = AliasArray(dims, tensor.data)
            /\ outRefs' = 1
            /\ own' = ReturnOwn([own EXCEPT !.holder = "callback"], tensor)
            /\ status' = "OK"
            /\ pc' = "done"
            /\ UNCHANGED failed
       ELSE /\ failed' = failed \cup {"ArrayFromMemory"}
            /\ pc' = "tp_reset"
            /\ UNCHANGED <<out, outRefs, own, status>>
  /\ UNCHANGED <<entry, isNull, tensor, heap, dims, nelems, moved, nullDeref,
                 oob, i, items, ndarray, chained>>

\* The fall-through without tensor.reset(original).
TP_ResetSkipped ==
  /\ pc = "tp_reset"
  /\ pc' = "tp_descr"
  /\ UNCHANGED <<entry, isNull, tensor, heap, own, dims, nelems, moved,
                 status, out, outRefs, calls, failed, nullDeref, oob, i,
                 items, ndarray, chained>>

\* tensor.reset(original).
TP_Reset ==
  /\ pc = "tp_reset"
  /\ own' = [own EXCEPT !.holder = "param"]
  /\ pc' = "tp_descr"
  /\ UNCHANGED <<entry, isNull, tensor, heap, dims, nelems, moved, status,
                 out, outRefs, calls, failed, nullDeref, oob, i, items,
                 ndarray, chained>>

\* The lookup with its error dropped instead of returned.
TP_DescrAbsorbed ==
  /\ pc = "tp_descr"
  /\ failed' = IF DataTypeToPyArray_Descr(tensor.dtype) = "OK"
               THEN failed ELSE failed \cup {"descr"}
  /\ pc' = "tp_alloc"
  /\ UNCHANGED <<entry, isNull, tensor, heap, own, dims, nelems, moved,
                 status, out, outRefs, calls, nullDeref, oob, i, items,
                 ndarray, chained>>

\* TF_RETURN_IF_ERROR(DataTypeToPyArray_Descr(...)).
TP_Descr ==
  /\ pc = "tp_descr"
  /\ LET st == DataTypeToPyArray_Descr(tensor.dtype) IN
     IF st = "OK"
     THEN /\ pc' = "tp_alloc"
          /\ UNCHANGED <<status, failed, own>>
     ELSE /\ status' = st
          /\ failed' = failed \cup {"descr"}
          /\ own' = ReturnOwn(own, tensor)
          /\ pc' = "done"
  /\ UNCHANGED <<entry, isNull, tensor, heap, dims, nelems, moved, out,
                 outRefs, calls, nullDeref, oob, i, items, ndarray, chained>>

\* safe_out_array = PyArray_Empty(...); if (!safe_out_array) return Internal.
TP_Alloc ==
  /\ pc = "tp_alloc"
  /\ \E ok \in BOOLEAN :
       IF ok
       THEN /\ items' = <<>>
            /\ pc' = "tp_copy"
            /\ UNCHANGED <<status, failed, own>>
       ELSE /\ status' = "Internal"
            /\ failed' = failed \cup {"alloc"}
            /\ own' = ReturnOwn(own, tensor)
            /\ pc' = "done"
            /\ UNCHANGED items
  /\ UNCHANGED <<entry, isNull, tensor, heap, dims, nelems, moved, out,
                 outRefs, calls, nullDeref, oob, i, ndarray, chained>>

\* The dispatch on TF_STRING, the byte-size comparison and FastMemcpy.
TP_Copy ==
  /\ pc = "tp_copy"
  /\ IF tensor.dtype = "TF_STRING"
     THEN /\ pc' = "cs_check"
          /\ UNCHANGED <<status, failed, own, items>>
     ELSE IF PyArray_NBYTES(dims, tensor.dtype) # Len(tensor.data)
     THEN /\ status' = "Internal"
          /\ failed' = failed \cup {"bytesize"}
          /\ own' = ReturnOwn(own, tensor)
          /\ pc' = "done"
          /\ UNCHANGED items
     ELSE /\ items' = FastMemcpy(tensor.data, PyArray_NBYTES(dims, tensor.dtype))
          /\ pc' = "tp_out"
          /\ UNCHANGED <<status, failed, own>>
  /\ UNCHANGED <<entry, isNull, tensor, heap, dims, nelems, moved, out,
                 outRefs, calls, nullDeref, oob, i, ndarray, chained>>

\* CopyTF_TensorStringsToPyArray, up to the loop: the size check.
CS_Check ==
  /\ pc = "cs_check"
  /\ LET tensor_size == Len(tensor.data)
         expected_tensor_size == ExpectedTensorSize(0, tensor_size)
     IN IF expected_tensor_size - tensor_size # 0
        THEN /\ status' = "InvalidArgument"
             /\ failed' = failed \cup {"decode"}
             /\ own' = ReturnOwn(own, tensor)
             /\ pc' = "done"
             /\ UNCHANGED i
        ELSE /\ i' = 0
             /\ pc' = "cs_loop"
             /\ UNCHANGED <<status, failed, own>>
  /\ UNCHANGED <<entry, isNull, tensor, heap, dims, nelems, moved, out,
                 outRefs, calls, nullDeref, oob, items, ndarray, chained>>

\* One iteration of the loop: decode record i, make the bytes object (env
\* says whether Python makes it and stores it), advance.
CS_Iter ==
  /\ pc = "cs_loop"
  /\ i < nelems
  /\ \E env \in {"ok", "pybytes", "setitem"}, ub \in {"wrap", "read"} :
       LET d == DecodeElem(tensor.data, heap, nelems, i, ub) IN
       /\ oob' = (oob \/ d.oob)
       /\ IF d.status = "Crash"
          THEN /\ status' = "Crash"
               /\ pc' = "crashed"
               /\ UNCHANGED <<failed, own, i, items>>
          ELSE IF d.status # "OK"
          THEN /\ status' = "InvalidArgument"
               /\ failed' = failed \cup {"decode"}
               /\ own' = ReturnOwn(own, tensor)
               /\ pc' = "done"
               /\ UNCHANGED <<i, items>>
          ELSE IF env # "ok"
          THEN /\ status' = "Internal"
               /\ failed' = failed \cup {env}
               /\ own' = ReturnOwn(own, tensor)
               /\ pc' = "done"
               /\ UNCHANGED <<i, items>>
          ELSE /\ items' = Append(items, d.bytes)
               /\ i' = i + 1
               /\ UNCHANGED <<status, failed, own, pc>>
  /\ UNCHANGED <<entry, isNull, tensor, heap, dims, nelems, moved, out,
                 outRefs, calls, nullDeref, ndarray, chained>>

\* The loop ends: CopyTF_TensorStringsToPyArray returns OK.
CS_Exit ==
  /\ pc = "cs_loop"
  /\ ~(i < nelems)
  /\ pc' = "tp_out"
  /\ UNCHANGED <<entry, isNull, tensor, heap, own, dims, nelems, moved,
                 status, out, outRefs, calls, failed, nullDeref, oob, i,
                 items, ndarray, chained>>

\* *out_ndarray = safe_out_array.release(); return Status::OK().
TP_Out ==
  /\ pc = "tp_out"
  /\ out' = IF tensor.dtype = "TF_STRING"
            THEN CopyArray(dims, <<>>, items)
            ELSE CopyArray(dims, items, <<>>)
  /\ outRefs' = 1
  /\ status' = "OK"
  /\ own' = ReturnOwn(own, tensor)
  /\ pc' = "done"
  /\ UNCHANGED <<entry, isNull, tensor, heap, dims, nelems, moved, calls,
                 failed, nullDeref, oob, i, items, ndarray, chained>>

(***************************************************************************)
(* TF_TensorToMaybeAliasedPyArray.                                         *)
(***************************************************************************)
\* A dispatch that forgets TF_RESOURCE.
RoutesOnlyString(dtype) == dtype = "TF_STRING"

\* if (dtype == TF_STRING || dtype == TF_RESOURCE) return TF_TensorToPyArray.
RoutesToFullConversion(dtype) == dtype = "TF_STRING" \/ dtype = "TF_RESOURCE"

\* auto dtype = TF_TensorType(tensor.get()) and the dispatch on it.
MA_Entry ==
  /\ pc = "ma_entry"
  /\ ~isNull
  /\ pc' = IF RoutesToFullConversion(tensor.dtype) THEN "tp_entry" ELSE "ma_release"
  /\ UNCHANGED <<entry, isNull, tensor, heap, own, dims, nelems, moved,
                 status, out, outRefs, calls, failed, nullDeref, oob, i,
                 items, ndarray, chained>>

\* The same line with a null tensor: TF_TensorType reads through the null
\* pointer.  The process dies, or the read yields some tensor's fields.
MA_EntryNull ==
  /\ pc = "ma_entry"
  /\ isNull
  /\ nullDeref' = TRUE
  /\ \E g \in GarbageTensors \cup {NoTensor} :
       IF g = NoTensor
       THEN /\ status' = "Crash"
            /\ pc' = "crashed"
            /\ UNCHANGED tensor
       ELSE /\ tensor' = g
            /\ pc' = IF RoutesToFullConversion(g.dtype) THEN "tp_entry" ELSE "ma_release"
            /\ UNCHANGED status
  /\ UNCHANGED <<entry, isNull, heap, own, dims, nelems, moved, out, outRefs,
                 calls, failed, oob, i, items, ndarray, chained>>

\* TF_Tensor* moved = tensor.release().
MA_Release ==
  /\ pc = "ma_release"
  /\ own' = [own EXCEPT !.holder = IF isNull THEN @ ELSE "raw"]
  /\ moved' = IF isNull THEN "null" ELSE "handle"
  /\ calls' = calls \cup {<<"MA", "release">>}
  /\ pc' = "ma_dims"
  /\ UNCHANGED <<entry, isNull, tensor, heap, dims, nelems, status, out,
                 outRefs, failed, nullDeref, oob, i, items, ndarray, chained>>

\* TF_RETURN_IF_ERROR(GetPyArrayDimensionsForTensor(moved, &dims, &nelems)).
MA_Dims ==
  /\ pc = "ma_dims"
  /\ LET r == GetPyArrayDimensionsForTensor(tensor, nelems) IN
     /\ dims' = r.dims
     /\ nelems' = r.nelems
     /\ IF r.ok
        THEN /\ pc' = "ma_alias"
             /\ UNCHANGED <<status, failed, own>>
        ELSE /\ status' = "InvalidArgument"
             /\ failed' = failed \cup {"shape"}
             /\ own' = ReturnOwn(own, tensor)
             /\ pc' = "done"
  /\ UNCHANGED <<entry, isNull, tensor, heap, moved, out, outRefs, calls,
                 nullDeref, oob, i, items, ndarray, chained>>

\* return ArrayFromMemory(..., [moved] { TF_DeleteTensor(moved); }, out).
MA_Alias ==
  /\ pc = "ma_alias"
  /\ calls' = calls \cup {<<"MA", "ArrayFromMemory">>}
  /\ \E ok \in BOOLEAN :
       LET st == ArrayFromMemory(tensor.dtype, ok) IN
       /\ status' = st
       /\ IF st = "OK"
          THEN /\ out' = AliasArray(dims, tensor.data)
               /\ outRefs' = 1
               /\ own' = ReturnOwn([own EXCEPT !.holder =
                                      IF isNull THEN @ ELSE "callback"], tensor)
               /\ UNCHANGED failed
          ELSE /\ failed' = failed \cup {"ArrayFromMemory"}
               /\ own' = ReturnOwn(own, tensor)
               /\ UNCHANGED <<out, outRefs>>
  /\ pc' = "done"
  /\ UNCHANGED <<entry, isNull, tensor, heap, dims, nelems, moved, nullDeref,
                 oob, i, items, ndarray, chained>>

(***************************************************************************)
(* The life of the ndarray handed out.                                     *)
(***************************************************************************)
\* The caller takes another reference to the array.
ArrayIncref ==
  /\ pc = "done"
  /\ out.kind \in {"alias", "copy"}
  /\ outRefs > 0
  /\ outRefs < MaxRefs
  /\ outRefs' = outRefs + 1
  /\ UNCHANGED <<pc, entry, isNull, tensor, heap, own, dims, nelems, moved,
                 status, out, calls, failed, nullDeref, oob, i, items,
                 ndarray, chained>>

\* The caller drops a reference; with the last one the array is deallocated
\* and the destructor of its base object, if it has one, runs.
ArrayDecref ==
  /\ pc = "done"
  /\ out.kind \in {"alias", "copy"}
  /\ outRefs > 0
  /\ outRefs' = outRefs - 1
  /\ own' = IF outRefs = 1 /\ own.holder = "callback"
            THEN TF_DeleteTensor(own, tensor, "callback")
            ELSE own
  /\ UNCHANGED <<pc, entry, isNull, tensor, heap, dims, nelems, moved,
                 status, out, calls, failed, nullDeref, oob, i, items,
                 ndarray, chained>>

(***************************************************************************)
(* PyArrayToTF_Tensor.                                                     *)
(***************************************************************************)
\* array_safe = PyArray_FromAny(...); if (!array_safe) return InvalidArgument.
PA_Entry ==
  /\ pc = "pa_entry"
  /\ IF ndarray.isArray
     THEN /\ own' = [own EXCEPT !.arrRefs = @ + 1]
          /\ pc' = "pa_dtype"
          /\ UNCHANGED <<status, failed>>
     ELSE /\ status' = "InvalidArgument"
          /\ failed' = failed \cup {"notarray"}
          /\ pc' = "pa_done"
          /\ UNCHANGED own
  /\ UNCHANGED <<entry, isNull, tensor, heap, dims, nelems, moved, out,
                 outRefs, calls, nullDeref, oob, i, items, ndarray, chained>>

\* TF_RETURN_IF_ERROR(PyArray_DescrToDataType(...)), then dims and nelems.
\* On the error return array_safe gives the reference up.
PA_Dtype ==
  /\ pc = "pa_dtype"
  /\ LET r == PyArray_DescrToDataType(ndarray.npy) IN
     IF r.ok
     THEN /\ tensor' = Tensor(r.dtype, <<>>, <<>>, "none")
          /\ dims' = ndarray.dims
          /\ nelems' = ProdSeq(ndarray.dims)
          /\ pc' = "pa_make"
          /\ UNCHANGED <<status, failed, own>>
     ELSE /\ status' = "Unimplemented"
          /\ failed' = failed \cup {"dtype"}
          /\ own' = [own EXCEPT !.arrDecrefs = @ + 1]
          /\ pc' = "pa_done"
          /\ UNCHANGED <<tensor, dims, nelems>>
  /\ UNCHANGED <<entry, isNull, heap, moved, out, outRefs, calls, nullDeref,
                 oob, i, items, ndarray, chained>>

\* An array_safe that is never released.
ArraySafeHoldsAlways(dtype) == TRUE

\* Whether array_safe still holds the reference when the function returns:
\* array_safe.release() is called in the two non-string branches only.
ArraySafeHolds(dtype) == dtype = "TF_STRING"

\* The three branches that make the tensor.  For TF_RESOURCE and the other
\* non-string dtypes array_safe.release() leaves the reference to the
\* tensor's DelayedNumpyDecref; for TF_STRING the strings are encoded and
\* array_safe gives the reference up at the return.
PA_Make ==
  /\ pc = "pa_make"
  /\ LET atReturn == IF ArraySafeHolds(tensor.dtype) THEN 1 ELSE 0 IN
     IF tensor.dtype = "TF_RESOURCE"
     THEN /\ tensor' = Tensor(tensor.dtype, <<>>, ndarray.data, "DelayedNumpyDecref")
          /\ own' = [own EXCEPT !.holder = "caller", !.arrDecrefs = @ + atReturn]
          /\ status' = "OK"
          /\ pc' = "pa_done"
          /\ UNCHANGED failed
     ELSE IF tensor.dtype # "TF_STRING"
     THEN /\ tensor' = Tensor(tensor.dtype, dims, ndarray.data, "DelayedNumpyDecref")
          /\ own' = [own EXCEPT !.holder = "caller", !.arrDecrefs = @ + atReturn]
          /\ status' = "OK"
          /\ pc' = "pa_done"
          /\ UNCHANGED failed
     ELSE \E getitem \in {"ok", "fail1", "fail2"} :
          LET e == EncodePyBytesArray(ndarray.items, nelems, getitem) IN
          IF e.status = "CheckFailed"
          THEN /\ status' = "Crash"
               /\ pc' = "crashed"
               /\ own' = [own EXCEPT !.encAllocs = @ + 1]
               /\ UNCHANGED <<tensor, failed>>
          ELSE IF e.status # "OK"
          THEN /\ status' = e.status
               /\ failed' = failed \cup {"encode"}
               /\ own' = [own EXCEPT !.arrDecrefs = @ + atReturn,
                                     !.encAllocs = IF e.allocated THEN @ + 1 ELSE @,
                                     !.encFrees = IF e.allocated THEN @ + 1 ELSE @]
               /\ pc' = "pa_done"
               /\ UNCHANGED tensor
          ELSE /\ tensor' = Tensor(tensor.dtype, dims, e.buffer, "delete[]")
               /\ own' = [own EXCEPT !.holder = "caller",
                                     !.arrDecrefs = @ + atReturn,
                                     !.encAllocs = @ + 1]
               /\ status' = "OK"
               /\ pc' = "pa_done"
               /\ UNCHANGED failed
  /\ UNCHANGED <<entry, isNull, heap, dims, nelems, moved, out, outRefs,
                 calls, nullDeref, oob, i, items, ndarray, chained>>

\* The caller lets go of the tensor PyArrayToTF_Tensor made.
DropTensor ==
  /\ pc = "pa_done"
  /\ own.holder = "caller"
  /\ own' = TF_DeleteTensor(own, tensor, "caller")
  /\ UNCHANGED <<pc, entry, isNull, tensor, heap, dims, nelems, moved,
                 status, out, outRefs, calls, failed, nullDeref, oob, i,
                 items, ndarray, chained>>

\* The caller converts the tensor back: it moves the handle into one of the
\* tensor-to-array entry points.
FeedTensor ==
  /\ pc = "pa_done"
  /\ own.holder = "caller"
  /\ \E e \in {"TP", "MA"}, h \in Heaps :
       /\ tensor.dtype # "TF_STRING" => h = <<>>
       /\ entry' = e
       /\ heap' = h
       /\ pc' = IF e = "TP" THEN "tp_entry" ELSE "ma_entry"
  /\ own' = [own EXCEPT !.holder = "param"]
  /\ chained' = TRUE
  /\ status' = "none"
  /\ dims' = <<>>
  /\ nelems' = 0 - 1
  /\ UNCHANGED <<isNull, tensor, moved, out, outRefs, calls, failed,
                 nullDeref, oob, i, items, ndarray>>

Next ==
  \/ CallTensorToArray
  \/ CallArrayToTensor
  \/ TP_Entry
  \/ TP_Dims
  \/ TP_Move
  \/ TP_Alias
  \/ TP_Reset
  \/ TP_Descr
  \/ TP_Alloc
  \/ TP_Copy
  \/ CS_Check
  \/ CS_Iter
  \/ CS_Exit
  \/ TP_Out
  \/ MA_Entry
  \/ MA_EntryNull
  \/ MA_Release
  \/ MA_Dims
  \/ MA_Alias
  \/ ArrayIncref
  \/ ArrayDecref
  \/ PA_Entry
  \/ PA_Dtype
  \/ PA_Make
  \/ DropTensor
  \/ FeedTensor

Spec == Init /\ [][Next]_vars

(***************************************************************************)
(* Properties.                                                             *)
(***************************************************************************)
\* The call ran, or is running, TF_TensorToPyArray (directly, or because
\* TF_TensorToMaybeAliasedPyArray handed the tensor over to it).
InTP ==
  /\ entry \in {"TP", "MA"}
  /\ pc \notin {"idle", "ma_entry", "ma_release", "ma_dims", "ma_alias"}
  /\ <<"MA", "release">> \notin calls

Returned == pc = "done"

\* The sum over the records of varint-length(len) + len.
RECURSIVE RecordsSize(_)
RecordsSize(strs) ==
  IF strs = <<>> THEN 0
  ELSE VarintLength(Len(Head(strs))) + Len(Head(strs)) + RecordsSize(Tail(strs))

\* The byte views of the elements of the array given to PyArrayToTF_Tensor.
SourceViews == PyBytesArrayMap(ndarray.items).views

\* C1: a TF_TensorToPyArray call on a non-null tensor deletes the handle
\* exactly once: after a successful aliasing transfer only the release
\* callback deletes it, when the last reference to the array drops, and not
\* the function; on every other return the callback never runs and the
\* function itself has deleted the handle exactly once.
C1_HandleDeletedOnce ==
  (InTP /\ ~isNull) =>
    /\ own.deletes <= 1
    /\ ~Returned => own.deletes = 0
    /\ (Returned /\ out.kind = "alias") =>
         /\ own.fnDeletes = 0
         /\ outRefs > 0 => (own.deletes = 0 /\ own.holder = "callback")
         /\ outRefs = 0 => (own.deletes = 1 /\ own.cbRuns = 1)
    /\ (Returned /\ out.kind # "alias") =>
         /\ own.cbRuns = 0
         /\ own.deletes = 1
         /\ own.fnDeletes = 1

\* Witness of C1: the move was granted, ArrayFromMemory failed, the copy
\* path ran and the function returned having deleted the handle.
C1_Witness ==
  /\ InTP /\ ~isNull /\ Returned
  /\ moved = "handle"
  /\ "ArrayFromMemory" \in failed
  /\ status = "OK"
  /\ own.fnDeletes = 1

\* C2: during and after a TF_TensorToMaybeAliasedPyArray call the handle is
\* never unowned: whoever holds it last deletes it.
C2_HandleNeverUnowned ==
  (entry = "MA" /\ ~isNull) => own.holder # "leaked"

\* C3: a string tensor whose byte size differs from 8*nelems plus the sizes
\* of its records is not decoded with status OK.
C3_SizeMismatchRejected ==
  (InTP /\ ~isNull /\ Returned /\ tensor.dtype = "TF_STRING" /\ ~oob
     /\ status = "OK")
    => Len(tensor.data) = SizeofUint64 * nelems + RecordsSize(out.items)

\* C4: decoding a string tensor never reads a byte outside the tensor buffer.
C4_NoReadOutsideBuffer ==
  (entry \in {"TP", "MA"} /\ ~isNull) => ~oob

\* C5 as stated: for a string or resource tensor neither TF_TensorMaybeMove
\* nor ArrayFromMemory is called.
C5_NoMoveForStringOrResource ==
  (entry \in {"TP", "MA"} /\ ~isNull
     /\ tensor.dtype \in {"TF_STRING", "TF_RESOURCE"})
    => \A c \in calls : c[2] \notin {"TF_TensorMaybeMove", "ArrayFromMemory"}

\* C5 as amended: for a string or resource tensor no aliasing transfer
\* completes: the array handed out is never an alias of the tensor buffer,
\* the release callback never holds the handle, an OK result is a fresh
\* copy, and TF_TensorToMaybeAliasedPyArray itself neither releases the
\* handle nor calls ArrayFromMemory.
C5_NoAliasForStringOrResource ==
  (entry \in {"TP", "MA"} /\ ~isNull
     /\ tensor.dtype \in {"TF_STRING", "TF_RESOURCE"})
    => /\ out.kind # "alias"
       /\ own.holder # "callback"
       /\ own.cbRuns = 0
       /\ \A c \in calls : c[1] # "MA"
       /\ (Returned /\ status = "OK") => out.kind = "copy"

\* Witness of C5: a string tensor whose move was granted and which
\* ArrayFromMemory refused came back as a decoded copy.
C5_Witness ==
  /\ entry \in {"TP", "MA"} /\ ~isNull /\ Returned
  /\ tensor.dtype = "TF_STRING"
  /\ <<"TP", "ArrayFromMemory">> \in calls
  /\ status = "OK"
  /\ out.kind = "copy"
  /\ Len(out.items) > 0

\* C6: a null tensor gives status OK and None with one new reference, and
\* the null pointer is never dereferenced, at both entry points.
C6_NullGivesNone ==
  (entry \in {"TP", "MA"} /\ isNull) =>
    /\ ~nullDeref
    /\ pc \in {"done", "crashed"} =>
         (status = "OK" /\ out = PyNone /\ outRefs = 1)

\* C7: the buffer EncodePyBytesArray makes of a string array decodes, with
\* CopyTF_TensorStringsToPyArray, to exactly the bytes of every element:
\* the decoder never reports a corrupt tensor, never leaves the buffer, and
\* stores at position i the bytes of element i.
C7_RoundTrip ==
  (chained /\ tensor.dtype = "TF_STRING") =>
    /\ status # "InvalidArgument"
    /\ pc # "crashed"
    /\ ~oob
    /\ pc \in {"cs_loop", "tp_out"} =>
         /\ Len(items) <= Len(SourceViews)
         /\ \A k \in 1..Len(items) : items[k] = SourceViews[k]
    /\ (Returned /\ failed \cap {"alloc", "pybytes", "setitem"} = {}) =>
         /\ status = "OK"
         /\ out.kind = "copy"
         /\ out.items = SourceViews

\* Witness of C7: an array holding the empty string, a string with an
\* embedded zero byte and the long string came back whole.
C7_Witness ==
  /\ chained /\ Returned /\ status = "OK"
  /\ tensor.dtype = "TF_STRING"
  /\ out.items = <<<<>>, <<97, 0, 98>>, LongStr>>

\* C8: the buffer EncodePyBytesArray returns has 8*nelems bytes of offsets
\* plus, per element, its length prefix and its bytes; slot i holds the sum
\* of the sizes of the records before record i, counted from the start of
\* the payload; for nelems >= 1 every offset is below the payload size; and
\* CHECK_EQ(dst, base + *size) holds.
C8_EncodeLayout ==
  /\ entry = "PA" => pc # "crashed"
  /\ tensor.dealloc = "delete[]" =>
       LET n == Len(ndarray.items)
           buf == tensor.data
           payload_size == Len(buf) - SizeofUint64 * n
           slot(k) == U64Value(SubSeq(buf, SizeofUint64 * (k - 1) + 1,
                                      SizeofUint64 * k))
       IN /\ Len(buf) = SizeofUint64 * n + RecordsSize(SourceViews)
          /\ \A k \in 1..n :
               /\ slot(k) = RecordsSize(SubSeq(SourceViews, 1, k - 1))
               /\ slot(k) >= 0
               /\ slot(k) < payload_size

\* Witness of C8: an array whose second element follows the long string
\* was encoded.
C8_Witness ==
  /\ pc = "pa_done" /\ status = "OK"
  /\ tensor.dealloc = "delete[]"
  /\ Len(ndarray.items) >= 2
  /\ ndarray.items[1] = PyBytes(LongStr)

\* C9 as stated: on every error return of PyArrayToTF_Tensor (not an array,
\* dtype lookup failure, encode failure) the array reference has been
\* released exactly once, and on an encode failure the encoded buffer has
\* been freed exactly once by the encoder.
C9_ReleasedOnceOnEveryErrorReturn ==
  (entry = "PA" /\ pc = "pa_done" /\ status # "OK") =>
    /\ own.arrDecrefs = 1
    /\ "encode" \in failed => own.encFrees = 1

\* C9 as amended: PyArrayToTF_Tensor gives up the array reference it
\* obtained exactly once: for the non-string dtypes not at the return but
\* when the tensor is deallocated; for the string dtype and on the error
\* returns that follow PyArray_FromAny (dtype lookup failure, encode
\* failure) before the function returns; when the object is not an array no
\* reference was obtained and none is released.  An encoded buffer that was
\* allocated is freed exactly once, by the tensor's deallocator on success
\* and by the encoder when its second pass fails; when the first pass fails
\* no buffer was allocated.
C9_ArrayReferenceReleasedOnce ==
  LET returned == pc \notin {"idle", "pa_entry", "pa_dtype", "pa_make", "crashed"}
  IN (entry = "PA" \/ chained) =>
       /\ own.arrDecrefs <= own.arrRefs /\ own.arrRefs <= 1
       /\ own.encFrees <= own.encAllocs /\ own.encAllocs <= 1
       /\ ~returned => (own.arrDecrefs = 0 /\ own.encFrees = 0)
       /\ (returned /\ tensor.dealloc = "DelayedNumpyDecref") =>
            /\ own.arrRefs = 1
            /\ own.arrDecrefs = own.deletes
            /\ own.holder # "freed" => own.arrDecrefs = 0
            /\ own.holder = "freed" => own.arrDecrefs = 1
            /\ own.encAllocs = 0
       /\ (returned /\ tensor.dealloc = "delete[]") =>
            /\ own.arrRefs = 1 /\ own.arrDecrefs = 1
            /\ own.encAllocs = 1
            /\ own.encFrees = own.deletes
            /\ own.holder = "freed" => own.encFrees = 1
       /\ (pc = "pa_done" /\ status # "OK") =>
            /\ "notarray" \in failed => (own.arrRefs = 0 /\ own.arrDecrefs = 0)
            /\ failed \cap {"dtype", "encode"} # {} =>
                 (own.arrRefs = 1 /\ own.arrDecrefs = 1)
            /\ own.encFrees = own.encAllocs
            /\ own.encAllocs = 1 => "encode" \in failed

\* Witness of C9: the encoder failed in its second pass; the function
\* returned the error with the reference released and the buffer freed.
C9_Witness ==
  /\ entry = "PA" /\ pc = "pa_done"
  /\ status = "Internal"
  /\ own.arrDecrefs = 1
  /\ own.encAllocs = 1
  /\ own.encFrees = 1

\* C10 as stated: in TF_TensorToPyArray any failing step but the refusal of
\* the move makes the call return a non-OK status.
C10_OnlyMoveRefusalAbsorbed ==
  (InTP /\ ~isNull /\ Returned /\ failed \ {"move"} # {}) => status # "OK"

\* C10 as amended: the failing steps TF_TensorToPyArray absorbs are the
\* refusal of the move and the failure of ArrayFromMemory, both of which
\* fall through to the copy path; every other failing step makes the call
\* return a non-OK status, and on a non-OK return *out_ndarray is unwritten.
C10_MoveAndAliasFailureAbsorbed ==
  (InTP /\ ~isNull /\ Returned) =>
    /\ failed \ {"move", "ArrayFromMemory"} # {} => status # "OK"
    /\ status = "OK" => (failed \subseteq {"move", "ArrayFromMemory"}
                           /\ out.kind \in {"alias", "copy"})
    /\ status # "OK" => (out = Unwritten
                           /\ failed \ {"move", "ArrayFromMemory"} # {})

\* Witness of C10: ArrayFromMemory failed and the call still returned OK
\* with a copy.
C10_Witness ==
  /\ InTP /\ ~isNull /\ Returned
  /\ "ArrayFromMemory" \in failed
  /\ status = "OK"
  /\ out.kind = "copy"
====
